---- MODULE Spec2Model ----
(***************************************************************************)
(* Model of src/eval/eval.py: one evaluation run of an agent session.      *)
(*   - generate_with_sdk: the streaming loop, the transcript tracker and   *)
(*     the derivation of the final text;                                   *)
(*   - extract_tagged_sections, write_results, copy_output_directory,      *)
(*     cleanup_directory;                                                  *)
(*   - main_async: validation, the temporary workspace, the working        *)
(*     directory switch and the two exit paths.                            *)
(* Text is a sequence of tokens: a token is one plain character or one     *)
(* whole tag delimiter such as "<summary>".                                *)
(***************************************************************************)
EXTENDS Integers, Sequences, FiniteSets, TLC

\* ------------------------------------------------------------------ bounds
\* Longest stream of messages in a full run (Spec).
MaxMsgs == 2
\* Longest stream of messages when generate_with_sdk is driven alone (SpecGenerate).
MaxStream == 3
\* Longest text, in segments, handed to extract_tagged_sections (SpecExtract).
MaxSegs == 3
\* Largest value of the retries argument of cleanup_directory (SpecRelease).
MaxRetries == 3
\* Most calls of cleanup_directory on one path (SpecRelease).
MaxCalls == 2

\* ------------------------------------------------------------------ program constants
\* cleanup_directory(path, retries=3, delay=1.0)
DefaultRetries == 3
DefaultDelay == 1

\* ------------------------------------------------------------------ text
WhiteSpace == {" ", "\n"}

RECURSIVE LStrip(_)
LStrip(s) == IF s = <<>> THEN s
             ELSE IF Head(s) \in WhiteSpace THEN LStrip(Tail(s)) ELSE s

RECURSIVE RStrip(_)
RStrip(s) == IF s = <<>> THEN s
             ELSE IF s[Len(s)] \in WhiteSpace THEN RStrip(SubSeq(s, 1, Len(s) - 1)) ELSE s

\* str.strip()
Strip(s) == RStrip(LStrip(s))

\* "".join(list)
RECURSIVE Join(_)
Join(ss) == IF ss = <<>> THEN <<>> ELSE Head(ss) \o Join(Tail(ss))

\* The text returned when the stream produced neither a result nor any text.
NoContent == <<"-- No content generated --">>

\* ------------------------------------------------------------------ messages
\* An attribute of a message: missing, None, a string, or a list of blocks.
Absent == [kind |-> "absent", str |-> <<>>, blocks |-> <<>>]
None == [kind |-> "none", str |-> <<>>, blocks |-> <<>>]
Str(s) == [kind |-> "str", str |-> s, blocks |-> <<>>]
List(bs) == [kind |-> "list", str |-> <<>>, blocks |-> bs]

\* A content block: whether it has a text attribute, an id attribute, and its text.
TextBlock(t) == [hasText |-> TRUE, hasId |-> FALSE, text |-> t]
ToolUseBlock == [hasText |-> FALSE, hasId |-> TRUE, text |-> <<>>]
ToolTextBlock(t) == [hasText |-> TRUE, hasId |-> TRUE, text |-> t]

Msg(t, r, c) == [type |-> t, result |-> r, content |-> c]

\* bool(value) of an attribute
Truthy(a) == \/ a.kind = "str" /\ a.str # <<>>
             \/ a.kind = "list" /\ a.blocks # <<>>

\* hasattr(message, name)
HasAttr(a) == a.kind # "absent"

\* The messages a full run is driven with: a system message, an assistant message
\* with tagged text, a tool call that leaves only blocks with an id, and result
\* messages (scenario A's result among them).
Messages ==
  { Msg("SystemMessage", Absent, Absent),
    Msg("AssistantMessage", Absent,
        List(<<TextBlock(<<"<feedback>", "f", "</feedback>", " ">>), ToolUseBlock>>)),
    Msg("ResultMessage",
        Str(<<" ", "<summary>", "a", "</summary>", "<response>", "b", "</response>", "\n">>),
        Absent),
    Msg("ResultMessage", Str(<<"<summary>", " ", "</summary>", "c">>), Absent) }

\* The values of a message's result and content attributes when generate_with_sdk
\* is driven alone.
ResultValues ==
  { Absent, Str(<<" ">>), Str(<<" ", "r", " ">>), Str(<<"s">>) }

ContentValues ==
  { Absent, Str(<<"u">>),
    List(<<TextBlock(<<"a", " ">>)>>),
    List(<<TextBlock(<<"\n">>), ToolUseBlock, ToolTextBlock(<<"t">>), TextBlock(<<"b">>)>>) }

StreamMessages == { Msg("Message", r, c) : r \in ResultValues, c \in ContentValues }

\* Files the agent may leave in its working directory while the session runs.
AgentWrites == { {}, {"app.sql"} }

\* ------------------------------------------------------------------ state
VARIABLES
  promptExists,          \* os.path.exists(args.prompt_file)
  no_mcp,                \* args.no_mcp
  launcherExists,        \* os.path.exists(mcp_server_path)
  envExists,             \* os.path.exists('.env')
  pc,                    \* where the process is
  exitCode,              \* "none", 0 or 1
  cwd,                   \* os.getcwd(): "orig" or "ws"
  original_cwd,          \* main_async's original_cwd ("unset" before line 355)
  wsExists,              \* the temporary directory exists
  wsFiles,               \* the files in it
  files,                 \* the results directory: file name -> content
  out,                   \* the results directory's out/ directory
  written,               \* the names this run wrote under the results directory
  client,                \* the engine session: "none", "open", "closed"
  observed,              \* the messages the engine has emitted so far
  tracker,               \* ConversationTracker.full_conversation
  message_count,
  generated_content,
  final_result_content,
  main,                  \* main_async's locals bound from the session and the extraction
  segments,              \* the segments the text under extraction was built from
  cd,                    \* the running call of cleanup_directory
  calls,                 \* calls of cleanup_directory made so far
  events                 \* the operations on the outside world, in order

vars == << promptExists, no_mcp, launcherExists, envExists, pc, exitCode, cwd,
           original_cwd, wsExists, wsFiles, files, out, written, client, observed,
           tracker, message_count, generated_content, final_result_content,
           main, segments, cd, calls, events >>

argVars == << promptExists, no_mcp, launcherExists, envExists >>
genVars == << observed, tracker, message_count, generated_content, final_result_content >>
resVars == << files, out, written >>
wsVars == << wsExists, wsFiles >>

\* The files write_results may write, and the results directory with none of them.
ResultNames == {"output.txt", "summary.md", "feedback.md", "response.txt", "transcript.md"}
NoFile == [present |-> FALSE, text |-> <<>>]
File(t) == [present |-> TRUE, text |-> t]
NoFiles == [n \in ResultNames |-> NoFile]
NoDir == [present |-> FALSE, files |-> {}]
Dir(fs) == [present |-> TRUE, files |-> fs]

\* One operation on the outside world, with the working directory and the
\* session state it ran under.
Ev(op, arg) == [op |-> op, arg |-> arg, cwd |-> cwd, client |-> client]

\* ------------------------------------------------------------------ ConversationTracker
Separator == "================================================================================"

\* str(item) of a content block
BlockStr(b) == <<"Block(">> \o (IF b.hasText THEN <<"text=">> \o b.text ELSE <<>>)
                           \o (IF b.hasId THEN <<"id">> ELSE <<>>) \o <<")">>

\* The lines of a list attribute: one per item, numbered from 0.
RECURSIVE RenderItems(_, _)
RenderItems(bs, i) ==
  IF bs = <<>> THEN <<>>
  ELSE <<"  [", ToString(i), "]: ">> \o BlockStr(Head(bs)) \o <<"\n">>
       \o RenderItems(Tail(bs), i + 1)

\* The lines of one attribute; an attribute that is missing or None prints nothing.
RenderAttr(name, a) ==
  CASE a.kind = "str" -> <<name, ": ">> \o a.str \o <<"\n">>
    [] a.kind = "list" -> <<name, ": [", ToString(Len(a.blocks)), " items]\n">>
                          \o RenderItems(a.blocks, 0)
    [] OTHER -> <<>>

\* The entry add_message_to_transcript builds; dir() lists attributes by name.
TranscriptEntry(count, message) ==
  <<"=== Message ", ToString(count), ": ", message.type, " ===\n">>
  \o RenderAttr("content", message.content)
  \o RenderAttr("result", message.result)
  \o <<"\n", Separator, "\n\n">>

\* A tracker that puts the newest entry first.
add_message_to_transcript_Prepend(conversation, count, message) ==
  <<TranscriptEntry(count, message)>> \o conversation

add_message_to_transcript(conversation, count, message) ==
  Append(conversation, TranscriptEntry(count, message))

get_transcript(conversation) == Join(conversation)

\* ------------------------------------------------------------------ generate_with_sdk
\* The text of the blocks that have a text and no id, each followed by a newline.
RECURSIVE CollectText(_, _)
CollectText(blocks, acc) ==
  IF blocks = <<>> THEN acc
  ELSE LET block == Head(blocks)
           text_content == Strip(block.text)
       IN CollectText(Tail(blocks),
                      IF block.hasText /\ ~block.hasId /\ text_content # <<>>
                      THEN acc \o text_content \o <<"\n">>
                      ELSE acc)

\* Whether the loop body takes its first branch: the message has a truthy result.
TakesResult(message) == HasAttr(message.result) /\ Truthy(message.result)

\* A loop that keeps the first result it saw.
NextFinalResult_KeepFirst(final, message) ==
  IF final = <<>> /\ TakesResult(message) /\ Strip(message.result.str) # <<>>
  THEN Strip(message.result.str)
  ELSE final

\* final_result_content after one message
NextFinalResult(final, message) ==
  IF TakesResult(message) /\ Strip(message.result.str) # <<>>
  THEN Strip(message.result.str)
  ELSE final

\* generated_content after one message
NextGenerated(generated, message) ==
  IF ~TakesResult(message) /\ HasAttr(message.content) /\ Truthy(message.content)
     /\ message.content.kind = "list"
  THEN CollectText(message.content.blocks, generated)
  ELSE generated

\* The final text once the stream has ended.
FinalText(final, generated) ==
  IF final # <<>> THEN final
  ELSE IF generated # <<>> THEN Strip(generated)
  ELSE NoContent

\* Lines 93-99: with tool servers requested, the launcher must exist.
GenConfigure ==
  /\ pc = "gen_start"
  /\ pc' = IF ~no_mcp /\ ~launcherExists THEN "gen_except" ELSE "gen_open"
  /\ tracker' = <<>>
  /\ UNCHANGED << argVars, exitCode, cwd, original_cwd, wsVars, resVars, client,
                  observed, message_count, generated_content, final_result_content,
                  main, segments, cd, calls, events >>

\* Line 151: the session is opened, or opening it raises.
OpenClient ==
  /\ pc = "gen_open"
  /\ \E ok \in BOOLEAN :
       IF ok THEN /\ client' = "open"
                  /\ events' = Append(events, Ev("open", ""))
                  /\ pc' = "gen_query"
             ELSE /\ UNCHANGED << client, events >>
                  /\ pc' = "gen_except"
  /\ UNCHANGED << argVars, exitCode, cwd, original_cwd, wsVars, resVars, genVars,
                  main, segments, cd, calls >>

\* Lines 157-162: the prompt is submitted and the accumulators start empty; if the
\* submission raises, the session is closed on the way out.
Query ==
  /\ pc = "gen_query"
  /\ \E ok \in BOOLEAN :
       IF ok THEN /\ generated_content' = <<>>
                  /\ final_result_content' = <<>>
                  /\ message_count' = 0
                  /\ events' = Append(events, Ev("query", ""))
                  /\ UNCHANGED client
                  /\ pc' = "gen_recv"
             ELSE /\ client' = "closed"
                  /\ events' = Append(events, Ev("close", ""))
                  /\ UNCHANGED << generated_content, final_result_content, message_count >>
                  /\ pc' = "gen_except"
  /\ UNCHANGED << argVars, exitCode, cwd, original_cwd, wsVars, resVars, observed,
                  tracker, main, segments, cd, calls >>

\* Lines 164-185: one message of the stream; the agent may have written into the
\* working directory meanwhile.
Receive(msgs, max) ==
  /\ pc = "gen_recv"
  /\ Len(observed) < max
  /\ \E message \in msgs, w \in AgentWrites :
       /\ observed' = Append(observed, message)
       /\ message_count' = message_count + 1
       /\ tracker' = add_message_to_transcript(tracker, message_count + 1, message)
       /\ final_result_content' = NextFinalResult(final_result_content, message)
       /\ generated_content' = NextGenerated(generated_content, message)
       /\ wsFiles' = IF cwd = "ws" /\ wsExists THEN wsFiles \cup w ELSE wsFiles
  /\ UNCHANGED << argVars, pc, exitCode, cwd, original_cwd, wsExists, resVars, client,
                  main, segments, cd, calls, events >>

\* Lines 187-195: the stream ended; the final text is chosen and the session closed.
StreamEnd ==
  /\ pc = "gen_recv"
  /\ generated_content' = FinalText(final_result_content, generated_content)
  /\ client' = "closed"
  /\ events' = Append(events, Ev("close", ""))
  /\ pc' = "gen_return"
  /\ UNCHANGED << argVars, exitCode, cwd, original_cwd, wsVars, resVars, observed,
                  tracker, message_count, final_result_content, main, segments, cd, calls >>

\* A stream error that leaves the session open.
StreamRaise_NoClose ==
  /\ pc = "gen_recv"
  /\ pc' = "gen_except"
  /\ UNCHANGED << argVars, exitCode, cwd, original_cwd, wsVars, resVars, client, genVars,
                  main, segments, cd, calls, events >>

\* The stream raises; the session is closed on the way out.
StreamRaise ==
  /\ pc = "gen_recv"
  /\ client' = "closed"
  /\ events' = Append(events, Ev("close", ""))
  /\ pc' = "gen_except"
  /\ UNCHANGED << argVars, exitCode, cwd, original_cwd, wsVars, resVars, genVars,
                  main, segments, cd, calls >>

\* main_async's locals before the session returns.
NoMain == [bound |-> FALSE, generated_content |-> <<>>, tracker |-> <<>>,
           extracted |-> FALSE, summary |-> None, feedback |-> None, response |-> None]

\* No call of cleanup_directory is running.
NoCall == [pc |-> "idle", caller |-> "", retries |-> 0, delay |-> 0, attempt |-> 0,
           existed |-> FALSE, tries |-> 0, forced |-> 0, warned |-> 0, sleeps |-> <<>>,
           ret |-> "none"]

\* generate_with_sdk called on its own, from inside an existing workspace.
InitGenerate ==
  /\ promptExists = TRUE
  /\ \E a \in {<<TRUE, FALSE>>, <<FALSE, TRUE>>, <<FALSE, FALSE>>} :
       no_mcp = a[1] /\ launcherExists = a[2]
  /\ envExists = FALSE
  /\ pc = "gen_start"
  /\ exitCode = "running"
  /\ cwd = "ws"
  /\ original_cwd = "orig"
  /\ wsExists = TRUE
  /\ wsFiles = {}
  /\ files = NoFiles
  /\ out = NoDir
  /\ written = {}
  /\ client = "none"
  /\ observed = <<>>
  /\ tracker = <<>>
  /\ message_count = 0
  /\ generated_content = <<>>
  /\ final_result_content = <<>>
  /\ main = NoMain
  /\ segments = <<>>
  /\ cd = NoCall
  /\ calls = 0
  /\ events = <<>>

ReceiveAny == Receive(StreamMessages, MaxStream)

NextGenerate == GenConfigure \/ OpenClient \/ Query \/ ReceiveAny \/ StreamEnd \/ StreamRaise

SpecGenerate == InitGenerate /\ [][NextGenerate]_vars


\* ------------------------------------------------------------------ extract_tagged_sections
OpenTag(tag) == CASE tag = "summary" -> "<summary>"
                  [] tag = "feedback" -> "<feedback>"
                  [] tag = "response" -> "<response>"

CloseTag(tag) == CASE tag = "summary" -> "</summary>"
                   [] tag = "feedback" -> "</feedback>"
                   [] tag = "response" -> "</response>"

\* The first position from i on that holds the token, 0 when there is none.
RECURSIVE FirstAt(_, _, _)
FirstAt(content, token, i) ==
  IF i > Len(content) THEN 0
  ELSE IF content[i] = token THEN i
  ELSE FirstAt(content, token, i + 1)

NoMatch == [found |-> FALSE, group |-> <<>>]

\* The last position that holds the token, 0 when there is none.
RECURSIVE LastAt(_, _, _)
LastAt(content, token, i) ==
  IF i < 1 THEN 0
  ELSE IF content[i] = token THEN i
  ELSE LastAt(content, token, i - 1)

\* A greedy pattern: the group runs to the last closing delimiter.
RECURSIVE Search_Greedy(_, _, _, _)
Search_Greedy(content, open, close, start) ==
  IF start > Len(content) THEN NoMatch
  ELSE IF content[start] = open /\ LastAt(content, close, Len(content)) > start
  THEN [found |-> TRUE,
        group |-> SubSeq(content, start + 1, LastAt(content, close, Len(content)) - 1)]
  ELSE Search_Greedy(content, open, close, start + 1)

\* re.search(open(.*?)close, content, re.DOTALL): the leftmost start at which the
\* pattern matches, with the shortest group there.
RECURSIVE Search(_, _, _, _)
Search(content, open, close, start) ==
  IF start > Len(content) THEN NoMatch
  ELSE IF content[start] = open /\ FirstAt(content, close, start + 1) # 0
  THEN [found |-> TRUE,
        group |-> SubSeq(content, start + 1, FirstAt(content, close, start + 1) - 1)]
  ELSE Search(content, open, close, start + 1)

\* One section: match.group(1).strip() if match else None
ExtractTag(content, tag) ==
  LET match == Search(content, OpenTag(tag), CloseTag(tag), 1)
  IN IF match.found THEN Str(Strip(match.group)) ELSE None

extract_tagged_sections(content) ==
  [summary |-> ExtractTag(content, "summary"),
   feedback |-> ExtractTag(content, "feedback"),
   response |-> ExtractTag(content, "response")]

\* ------------------------------------------------------------------ write_results
Write(name, text) == [name |-> name, text |-> text]

\* The writes write_results performs, in order.
write_results(content, summary, feedback, response, conversation) ==
  <<Write("output.txt", content)>>
  \o (IF Truthy(summary)
      THEN <<Write("summary.md", <<"# Summary\n\n">> \o summary.str)>> ELSE <<>>)
  \o (IF Truthy(feedback)
      THEN <<Write("feedback.md", <<"# Tool Feedback\n\n">> \o feedback.str)>> ELSE <<>>)
  \o (IF Truthy(response)
      THEN <<Write("response.txt", response.str)>> ELSE <<>>)
  \o (IF conversation # <<>>
      THEN <<Write("transcript.md",
                   <<"# Full Conversation Transcript\n\n",
                     "This file contains the complete conversation flow with all messages, tool calls, and responses.\n\n">>
                   \o get_transcript(conversation))>>
      ELSE <<>>)

\* The results directory after the first n of the writes.
RECURSIVE Apply(_, _, _)
Apply(fs, writes, n) ==
  IF n = 0 THEN fs
  ELSE LET w == writes[n]
       IN [Apply(fs, writes, n - 1) EXCEPT ![w.name] = File(w.text)]

\* ------------------------------------------------------------------ cleanup_directory
\* A loop that gives up one attempt early.
ShouldRetry_Early(attempt, retries) == attempt < retries - 2

\* A loop that waits after its last attempt as well.
ShouldRetry_Always(attempt, retries) == attempt < retries

\* Line 233: after a failed attempt, whether another one follows.
ShouldRetry(attempt, retries) == attempt < retries - 1

\* A call that has just begun: besides the arguments and the loop variable it
\* records whether the path existed, and counts the attempts, forced removals,
\* warnings and waits of the call.
NewCall(caller, retries, delay) ==
  [pc |-> "try", caller |-> caller, retries |-> retries, delay |-> delay, attempt |-> 0,
   existed |-> wsExists, tries |-> 0, forced |-> 0, warned |-> 0, sleeps |-> <<>>,
   ret |-> "none"]

\* Lines 228-237: one pass of the loop. shutil.rmtree either removes the directory
\* or raises OSError; on a path that does not exist it raises.
CdAttempt ==
  /\ pc = "cleanup" /\ cd.pc = "try"
  /\ IF cd.attempt >= cd.retries
     THEN /\ cd' = [cd EXCEPT !.pc = "ret", !.ret = "False"]
          /\ UNCHANGED << wsVars, events >>
     ELSE \E ok \in (IF wsExists THEN BOOLEAN ELSE {FALSE}) :
            IF ok
            THEN /\ wsExists' = FALSE
                 /\ wsFiles' = {}
                 /\ cd' = [cd EXCEPT !.pc = "ret", !.ret = "True", !.tries = @ + 1]
                 /\ events' = Append(events, Ev("rmtree", "ok"))
            ELSE /\ UNCHANGED wsVars
                 /\ cd' = IF ShouldRetry(cd.attempt, cd.retries)
                          THEN [cd EXCEPT !.pc = "sleep", !.tries = @ + 1]
                          ELSE [cd EXCEPT !.pc = "forced", !.tries = @ + 1, !.warned = @ + 1]
                 /\ events' = Append(events, Ev("rmtree", "fail"))
  /\ UNCHANGED << argVars, pc, exitCode, cwd, original_cwd, resVars, client, genVars,
                  main, segments, calls >>

\* Lines 234-235: wait, then the next pass.
CdSleep ==
  /\ pc = "cleanup" /\ cd.pc = "sleep"
  /\ cd' = [cd EXCEPT !.pc = "try", !.attempt = @ + 1, !.sleeps = Append(@, cd.delay)]
  /\ events' = Append(events, Ev("sleep", ""))
  /\ UNCHANGED << argVars, pc, exitCode, cwd, original_cwd, wsVars, resVars, client,
                  genVars, main, segments, calls >>

\* Lines 237-240: the removal that ignores errors; it may leave the directory behind.
CdForced ==
  /\ pc = "cleanup" /\ cd.pc = "forced"
  /\ \E gone \in BOOLEAN :
       /\ wsExists' = (wsExists /\ ~gone)
       /\ wsFiles' = IF gone THEN {} ELSE wsFiles
  /\ cd' = [cd EXCEPT !.pc = "ret", !.ret = "False", !.forced = @ + 1]
  /\ events' = Append(events, Ev("rmtree_ignore_errors", ""))
  /\ UNCHANGED << argVars, pc, exitCode, cwd, original_cwd, resVars, client, genVars,
                  main, segments, calls >>

\* The call returns to where it was made.
CdReturn ==
  /\ pc = "cleanup" /\ cd.pc = "ret"
  /\ pc' = cd.caller
  /\ cd' = [cd EXCEPT !.pc = "idle"]
  /\ UNCHANGED << argVars, exitCode, cwd, original_cwd, wsVars, resVars, client, genVars,
                  main, segments, calls, events >>


\* ------------------------------------------------------------------ main_async
\* What an earlier run into the same results directory may have left there.
Old == <<"old">>
PriorRuns == { {}, {"output.txt", "transcript.md"}, ResultNames }

\* A validation that forgets the launcher.
ValidateInputs_NoLauncherCheck ==
  /\ pc = "start"
  /\ IF ~promptExists
     THEN /\ pc' = "done"
          /\ exitCode' = "1"
          /\ events' = Append(events, Ev("exit", "1"))
     ELSE /\ pc' = "read"
          /\ UNCHANGED << exitCode, events >>
  /\ UNCHANGED << argVars, cwd, original_cwd, wsVars, resVars, client, genVars, main,
                  segments, cd, calls >>

\* Lines 322-336: the prompt file and, with tool servers, the launcher must exist.
ValidateInputs ==
  /\ pc = "start"
  /\ IF ~promptExists \/ (~no_mcp /\ ~launcherExists)
     THEN /\ pc' = "done"
          /\ exitCode' = "1"
          /\ events' = Append(events, Ev("exit", "1"))
     ELSE /\ pc' = "read"
          /\ UNCHANGED << exitCode, events >>
  /\ UNCHANGED << argVars, cwd, original_cwd, wsVars, resVars, client, genVars, main,
                  segments, cd, calls >>

\* Lines 338-344: the prompt is read (a failed read exits) and the results
\* directory made.
ReadPrompt ==
  /\ pc = "read"
  /\ \E ok \in BOOLEAN :
       IF ok THEN /\ pc' = "mk_tmp"
                  /\ UNCHANGED << exitCode, events >>
             ELSE /\ pc' = "done"
                  /\ exitCode' = "1"
                  /\ events' = Append(events, Ev("exit", "1"))
  /\ UNCHANGED << argVars, cwd, original_cwd, wsVars, resVars, client, genVars, main,
                  segments, cd, calls >>

\* Line 347: the temporary directory is created.
CreateTempDir ==
  /\ pc = "mk_tmp"
  /\ wsExists' = TRUE
  /\ wsFiles' = {}
  /\ events' = Append(events, Ev("mkdtemp", ""))
  /\ pc' = "copy_env"
  /\ UNCHANGED << argVars, exitCode, cwd, original_cwd, resVars, client, genVars, main,
                  segments, cd, calls >>

\* Lines 350-352: .env is copied into it when there is one.
CopyEnv ==
  /\ pc = "copy_env"
  /\ IF envExists
     THEN /\ wsFiles' = wsFiles \cup {".env"}
          /\ events' = Append(events, Ev("copy_env", ""))
     ELSE UNCHANGED << wsFiles, events >>
  /\ pc' = "chdir"
  /\ UNCHANGED << argVars, exitCode, cwd, original_cwd, wsExists, resVars, client,
                  genVars, main, segments, cd, calls >>

\* A run that saves the working directory but does not switch.
ChdirTemp_Stay ==
  /\ pc = "chdir"
  /\ original_cwd' = cwd
  /\ pc' = "gen_start"
  /\ UNCHANGED << argVars, exitCode, cwd, wsVars, resVars, client, genVars, main, segments,
                  cd, calls, events >>

\* Lines 355-356: the working directory is saved and switched.
ChdirTemp ==
  /\ pc = "chdir"
  /\ original_cwd' = cwd
  /\ cwd' = "ws"
  /\ events' = Append(events, Ev("chdir", "ws"))
  /\ pc' = "gen_start"
  /\ UNCHANGED << argVars, exitCode, wsVars, resVars, client, genVars, main, segments,
                  cd, calls >>

\* Line 360: generate_with_sdk returned; its results are bound in main_async.
GenReturn ==
  /\ pc = "gen_return"
  /\ main' = [main EXCEPT !.bound = TRUE, !.generated_content = generated_content,
                          !.tracker = tracker]
  /\ pc' = "m_chdir_back"
  /\ UNCHANGED << argVars, exitCode, cwd, original_cwd, wsVars, resVars, client, genVars,
                  segments, cd, calls, events >>

\* A handler that swallows the error and carries on as if the session had returned.
GenExcept_Swallow ==
  /\ pc = "gen_except"
  /\ pc' = "m_chdir_back"
  /\ UNCHANGED << argVars, exitCode, cwd, original_cwd, wsVars, resVars, client, genVars,
                  main, segments, cd, calls, events >>

\* Lines 197-199: generate_with_sdk prints the error and raises it again.
GenExcept ==
  /\ pc = "gen_except"
  /\ pc' = "m_except"
  /\ UNCHANGED << argVars, exitCode, cwd, original_cwd, wsVars, resVars, client, genVars,
                  main, segments, cd, calls, events >>

\* Line 368.
ChdirBack ==
  /\ pc = "m_chdir_back"
  /\ cwd' = original_cwd
  /\ events' = Append(events, Ev("chdir", original_cwd))
  /\ pc' = "m_extract"
  /\ UNCHANGED << argVars, exitCode, original_cwd, wsVars, resVars, client, genVars, main,
                  segments, cd, calls >>

\* Line 371.
Extract ==
  /\ pc = "m_extract"
  /\ LET sections == extract_tagged_sections(main.generated_content)
     IN main' = [main EXCEPT !.extracted = TRUE, !.summary = sections.summary,
                             !.feedback = sections.feedback, !.response = sections.response]
  /\ pc' = "m_write"
  /\ UNCHANGED << argVars, exitCode, cwd, original_cwd, wsVars, resVars, client, genVars,
                  segments, cd, calls, events >>

\* Line 377: write_results; any of its writes may raise, which ends it there.
WriteResults ==
  /\ pc = "m_write"
  /\ LET writes == write_results(main.generated_content, main.summary, main.feedback,
                                 main.response, main.tracker)
     IN \E n \in 0..Len(writes) :
          /\ files' = Apply(files, writes, n)
          /\ written' = written \cup { writes[i].name : i \in 1..n }
          /\ events' = events \o [i \in 1..n |-> Ev("write", writes[i].name)]
          /\ pc' = IF n = Len(writes) THEN "m_copy" ELSE "m_except"
  /\ UNCHANGED << argVars, exitCode, cwd, original_cwd, wsVars, out, client, genVars, main,
                  segments, cd, calls >>

\* A run that skips the snapshot.
CopyOutput_Skip ==
  /\ pc = "m_copy"
  /\ pc' = "m_cleanup"
  /\ UNCHANGED << argVars, exitCode, cwd, original_cwd, wsVars, resVars, client, genVars,
                  main, segments, cd, calls, events >>

\* Line 380: copy_output_directory removes out/ and copies the workspace there.
\* The removal may raise, leaving what it had not removed yet; the copy may raise,
\* leaving what it had copied so far.
CopyOutput ==
  /\ pc = "m_copy"
  /\ \E outcome \in {"ok", "rmtree_raises", "copytree_raises"} :
       CASE outcome = "ok" ->
              /\ out' = Dir(wsFiles)
              /\ written' = written \cup {"out"}
              /\ events' = events
                           \o (IF out.present THEN <<Ev("rmtree_out", "ok")>> ELSE <<>>)
                           \o <<Ev("copytree", "ok")>>
              /\ pc' = "m_cleanup"
         [] outcome = "rmtree_raises" ->
              /\ out.present
              /\ \E left \in SUBSET out.files : out' = Dir(left)
              /\ UNCHANGED written
              /\ events' = Append(events, Ev("rmtree_out", "fail"))
              /\ pc' = "m_except"
         [] outcome = "copytree_raises" ->
              /\ \E copied \in SUBSET wsFiles : out' = Dir(copied)
              /\ written' = written \cup {"out"}
              /\ events' = events
                           \o (IF out.present THEN <<Ev("rmtree_out", "ok")>> ELSE <<>>)
                           \o <<Ev("copytree", "fail")>>
              /\ pc' = "m_except"
  /\ UNCHANGED << argVars, exitCode, cwd, original_cwd, wsVars, files, client, genVars,
                  main, segments, cd, calls >>

\* Line 384.
CleanupOnSuccess ==
  /\ pc = "m_cleanup"
  /\ cd' = NewCall("m_preview", DefaultRetries, DefaultDelay)
  /\ calls' = calls + 1
  /\ pc' = "cleanup"
  /\ UNCHANGED << argVars, exitCode, cwd, original_cwd, wsVars, resVars, client, genVars,
                  main, segments, events >>

\* Lines 386-395: the preview is printed and the with block left.
Preview ==
  /\ pc = "m_preview"
  /\ events' = Append(events, Ev("preview", ""))
  /\ pc' = "exit_ok"
  /\ UNCHANGED << argVars, exitCode, cwd, original_cwd, wsVars, resVars, client, genVars,
                  main, segments, cd, calls >>

\* A handler that forgets to restore the working directory.
MainExcept_NoChdir ==
  /\ pc = "m_except"
  /\ pc' = "m_exc_cleanup"
  /\ UNCHANGED << argVars, exitCode, cwd, original_cwd, wsVars, resVars, client, genVars,
                  main, segments, cd, calls, events >>

\* Lines 397-398: the handler restores the working directory.
MainExcept ==
  /\ pc = "m_except"
  /\ cwd' = original_cwd
  /\ events' = Append(events, Ev("chdir", original_cwd))
  /\ pc' = "m_exc_cleanup"
  /\ UNCHANGED << argVars, exitCode, original_cwd, wsVars, resVars, client, genVars, main,
                  segments, cd, calls >>

\* A handler that exits without cleaning up.
CleanupOnError_Skip ==
  /\ pc = "m_exc_cleanup"
  /\ pc' = "m_exit1"
  /\ UNCHANGED << argVars, exitCode, cwd, original_cwd, wsVars, resVars, client, genVars,
                  main, segments, cd, calls, events >>

\* Line 399.
CleanupOnError ==
  /\ pc = "m_exc_cleanup"
  /\ cd' = NewCall("m_exit1", DefaultRetries, DefaultDelay)
  /\ calls' = calls + 1
  /\ pc' = "cleanup"
  /\ UNCHANGED << argVars, exitCode, cwd, original_cwd, wsVars, resVars, client, genVars,
                  main, segments, events >>

\* A handler whose error path leaves as a success would.
ExitError_Zero ==
  /\ pc = "m_exit1"
  /\ pc' = "exit_ok"
  /\ UNCHANGED << argVars, exitCode, cwd, original_cwd, wsVars, resVars, client, genVars,
                  main, segments, cd, calls, events >>

\* Lines 400-401: sys.exit(1) leaves the with block.
ExitError ==
  /\ pc = "m_exit1"
  /\ pc' = "exit_err"
  /\ UNCHANGED << argVars, exitCode, cwd, original_cwd, wsVars, resVars, client, genVars,
                  main, segments, cd, calls, events >>

\* Line 347, leaving the with block: TemporaryDirectory removes the directory if it
\* is still there; a removal that fails raises out of main_async.
TempDirExit ==
  /\ pc \in {"exit_ok", "exit_err"}
  /\ \E ok \in (IF wsExists THEN BOOLEAN ELSE {TRUE}) :
       /\ wsExists' = (wsExists /\ ~ok)
       /\ wsFiles' = IF ok THEN {} ELSE wsFiles
       /\ exitCode' = IF ok /\ pc = "exit_ok" THEN "0" ELSE "1"
       /\ events' = events
                    \o <<Ev("tmp_cleanup", IF ~wsExists THEN "absent" ELSE IF ok THEN "ok" ELSE "fail"),
                         Ev("exit", IF ok /\ pc = "exit_ok" THEN "0" ELSE "1")>>
  /\ pc' = "done"
  /\ UNCHANGED << argVars, cwd, original_cwd, resVars, client, genVars, main, segments,
                  cd, calls >>

\* A run of the program: any arguments and environment, and a results directory
\* that is new or was left by an earlier run.
Init ==
  /\ promptExists \in BOOLEAN
  /\ no_mcp \in BOOLEAN
  /\ launcherExists \in BOOLEAN
  /\ envExists \in BOOLEAN
  /\ pc = "start"
  /\ exitCode = "running"
  /\ cwd = "orig"
  /\ original_cwd = "unset"
  /\ wsExists = FALSE
  /\ wsFiles = {}
  /\ \E prior \in PriorRuns :
       /\ files = [n \in ResultNames |-> IF n \in prior THEN File(Old) ELSE NoFile]
       /\ out = IF prior = {} THEN NoDir ELSE Dir({"old.sql"})
  /\ written = {}
  /\ client = "none"
  /\ observed = <<>>
  /\ tracker = <<>>
  /\ message_count = 0
  /\ generated_content = <<>>
  /\ final_result_content = <<>>
  /\ main = NoMain
  /\ segments = <<>>
  /\ cd = NoCall
  /\ calls = 0
  /\ events = <<>>

ReceiveMessage == Receive(Messages, MaxMsgs)

Next ==
  \/ ValidateInputs \/ ReadPrompt \/ CreateTempDir \/ CopyEnv \/ ChdirTemp
  \/ GenConfigure \/ OpenClient \/ Query \/ ReceiveMessage \/ StreamEnd \/ StreamRaise
  \/ GenReturn \/ GenExcept
  \/ ChdirBack \/ Extract \/ WriteResults \/ CopyOutput \/ CleanupOnSuccess \/ Preview
  \/ MainExcept \/ CleanupOnError \/ ExitError
  \/ CdAttempt \/ CdSleep \/ CdForced \/ CdReturn
  \/ TempDirExit

Spec == Init /\ [][Next]_vars


\* ------------------------------------------------------------------ the functions on their own
\* A segment of a text: one plain character, or a tag's pair around plain text.
Plain(c) == [tag |-> "", inner |-> <<c>>]
Block(tag, inner) == [tag |-> tag, inner |-> inner]

Tags == {"summary", "feedback", "response"}
PlainChars == {"a", " ", "response"}
Inners == { <<>>, <<" ", "x", "\n">>, <<"summary", "feedback">> }
Segments == { Plain(c) : c \in PlainChars } \cup { Block(t, i) : t \in Tags, i \in Inners }

RECURSIVE Flatten(_)
Flatten(segs) ==
  IF segs = <<>> THEN <<>>
  ELSE LET g == Head(segs)
       IN (IF g.tag = "" THEN g.inner
           ELSE <<OpenTag(g.tag)>> \o g.inner \o <<CloseTag(g.tag)>>)
          \o Flatten(Tail(segs))

\* extract_tagged_sections called on a text built from segments.
InitExtract ==
  /\ promptExists = TRUE
  /\ no_mcp = TRUE
  /\ launcherExists = FALSE
  /\ envExists = FALSE
  /\ pc = "m_extract"
  /\ exitCode = "running"
  /\ cwd = "orig"
  /\ original_cwd = "orig"
  /\ wsExists = TRUE
  /\ wsFiles = {}
  /\ files = NoFiles
  /\ out = NoDir
  /\ written = {}
  /\ client = "closed"
  /\ observed = <<>>
  /\ tracker = <<>>
  /\ message_count = 0
  /\ generated_content = <<>>
  /\ final_result_content = <<>>
  /\ segments \in UNION { [1..n -> Segments] : n \in 0..MaxSegs }
  /\ main = [NoMain EXCEPT !.bound = TRUE, !.generated_content = Flatten(segments)]
  /\ cd = NoCall
  /\ calls = 0
  /\ events = <<>>

SpecExtract == InitExtract /\ [][Extract]_vars

\* cleanup_directory called on a path that exists or not, with any retry count.
InitRelease ==
  /\ promptExists = TRUE
  /\ no_mcp = TRUE
  /\ launcherExists = FALSE
  /\ envExists = FALSE
  /\ pc = "h_idle"
  /\ exitCode = "running"
  /\ cwd = "orig"
  /\ original_cwd = "orig"
  /\ wsExists \in BOOLEAN
  /\ wsFiles = {}
  /\ files = NoFiles
  /\ out = NoDir
  /\ written = {}
  /\ client = "none"
  /\ observed = <<>>
  /\ tracker = <<>>
  /\ message_count = 0
  /\ generated_content = <<>>
  /\ final_result_content = <<>>
  /\ main = NoMain
  /\ segments = <<>>
  /\ cd = NoCall
  /\ calls = 0
  /\ events = <<>>

\* One more call on the same path.
ReleaseCall ==
  /\ pc = "h_idle"
  /\ calls < MaxCalls
  /\ \E retries \in 0..MaxRetries : cd' = NewCall("h_idle", retries, DefaultDelay)
  /\ calls' = calls + 1
  /\ pc' = "cleanup"
  /\ UNCHANGED << argVars, exitCode, cwd, original_cwd, wsVars, resVars, client, genVars,
                  main, segments, events >>

NextRelease == ReleaseCall \/ CdAttempt \/ CdSleep \/ CdForced \/ CdReturn

SpecRelease == InitRelease /\ [][NextRelease]_vars

\* ------------------------------------------------------------------ claims on generate_with_sdk
\* The result value a message exposes: its result attribute as trimmed text, empty
\* when the attribute is missing, None or blank.
ResultOf(message) ==
  IF message.result.kind = "str" THEN Strip(message.result.str) ELSE <<>>

HasResult(message) == ResultOf(message) # <<>>

SomeResult == \E i \in 1..Len(observed) : HasResult(observed[i])

LastResult ==
  LET i == CHOOSE k \in 1..Len(observed) :
             HasResult(observed[k]) /\ \A j \in (k + 1)..Len(observed) : ~HasResult(observed[j])
  IN ResultOf(observed[i])

\* The non-empty trimmed texts of the blocks of a message's content list that have
\* a text and no id.
RECURSIVE BlockFragments(_)
BlockFragments(blocks) ==
  IF blocks = <<>> THEN <<>>
  ELSE LET b == Head(blocks)
       IN (IF b.hasText /\ ~b.hasId /\ Strip(b.text) # <<>> THEN <<Strip(b.text)>> ELSE <<>>)
          \o BlockFragments(Tail(blocks))

Fragments(message) ==
  IF message.content.kind = "list" THEN BlockFragments(message.content.blocks) ELSE <<>>

RECURSIVE StreamFragments(_)
StreamFragments(n) ==
  IF n = 0 THEN <<>> ELSE StreamFragments(n - 1) \o Fragments(observed[n])

\* The fragments one per line, without the last line end.
RECURSIVE Lines(_)
Lines(fs) ==
  IF fs = <<>> THEN <<>>
  ELSE IF Len(fs) = 1 THEN Head(fs)
  ELSE Head(fs) \o <<"\n">> \o Lines(Tail(fs))

\* C1: when the stream was consumed to its end and some message exposed a non-empty
\* result value, the final text returned is the trimmed result value of the most
\* recent such message, whatever text fragments and earlier results were seen.
C1_MostRecentResultWins ==
  (pc = "gen_return" /\ SomeResult) => generated_content = LastResult

\* C1 witness: a stream with a text fragment and then two different results has
\* returned the later result.
C1_Witness ==
  /\ pc = "gen_return"
  /\ Len(observed) = 3
  /\ Fragments(observed[1]) # <<>> /\ ~HasResult(observed[1])
  /\ HasResult(observed[2]) /\ HasResult(observed[3])
  /\ ResultOf(observed[2]) # ResultOf(observed[3])
  /\ generated_content = ResultOf(observed[3])

\* C2: when the stream was consumed to its end and no message yielded a non-empty
\* result value, the final text is every non-empty text fragment of every message's
\* text-and-no-id blocks, in arrival order, and it is the sentinel exactly when
\* there is no such fragment.
C2_EveryFragmentOrSentinel ==
  (pc = "gen_return" /\ ~SomeResult) =>
     LET fs == StreamFragments(Len(observed))
     IN /\ (fs # <<>> => generated_content = Lines(fs))
        /\ (generated_content = NoContent <=> fs = <<>>)

\* The entries of the tracker up to the n-th, one after the other.
RECURSIVE EntriesUpTo(_)
EntriesUpTo(n) == IF n = 0 THEN <<>> ELSE EntriesUpTo(n - 1) \o tracker[n]

IsPrefixOf(s, t) == Len(s) <= Len(t) /\ SubSeq(t, 1, Len(s)) = s

\* The tracker holds one entry per message observed, the k-th with ordinal k and
\* rendering the k-th message, and the transcript is the entries in that order.
TrackerFaithful ==
  /\ Len(tracker) = Len(observed)
  /\ \A k \in 1..Len(tracker) :
       /\ tracker[k][2] = ToString(k)
       /\ tracker[k] = TranscriptEntry(k, observed[k])
  /\ get_transcript(tracker) = EntriesUpTo(Len(tracker))

Expected(segs, tag) ==
  IF \E i \in 1..Len(segs) : segs[i].tag = tag
  THEN LET i == CHOOSE k \in 1..Len(segs) :
                  segs[k].tag = tag /\ \A j \in 1..(k - 1) : segs[j].tag # tag
       IN Str(Strip(segs[i].inner))
  ELSE None

\* The text without the pairs of the other tags.
RECURSIVE Without(_, _)
Without(segs, tag) ==
  IF segs = <<>> THEN <<>>
  ELSE (IF Head(segs).tag \in {"", tag} THEN <<Head(segs)>> ELSE <<>>)
       \o Without(Tail(segs), tag)

Section(tag) == CASE tag = "summary" -> main.summary
                  [] tag = "feedback" -> main.feedback
                  [] tag = "response" -> main.response

\* C4: for a text of plain characters and tag pairs in any order, each tag's
\* section is the trimmed text between the tag's first pair, None when the tag has
\* no pair, and is the same as for the text without the other tags' pairs.
C4_SectionsExtracted ==
  (pc = "m_write") =>
     \A tag \in Tags :
        /\ Section(tag) = Expected(segments, tag)
        /\ Section(tag) = ExtractTag(Flatten(Without(segments, tag)), tag)

\* C4 witness: the three pairs in the order response, summary, feedback, the
\* summary holding the name of another tag, were all extracted.
C4_Witness ==
  /\ pc = "m_write"
  /\ Len(segments) = 3
  /\ segments[1] = Block("response", <<" ", "x", "\n">>)
  /\ segments[2] = Block("summary", <<"summary", "feedback">>)
  /\ segments[3].tag = "feedback"
  /\ main.response = Str(<<"x">>)
  /\ main.summary = Str(<<"summary", "feedback">>)
  /\ main.feedback # None

\* ------------------------------------------------------------------ claims on the run
Finished == pc = "done"
Succeeded == pc = "done" /\ exitCode = "0"

\* C5: after a run that completed successfully, whatever the results directory
\* held before, each of summary.md, feedback.md and response.txt is present iff
\* its section was extracted, and transcript.md iff a message was recorded.
C5_OptionalFilesPresentIff ==
  Succeeded =>
     /\ files["summary.md"].present <=> Truthy(main.summary)
     /\ files["feedback.md"].present <=> Truthy(main.feedback)
     /\ files["response.txt"].present <=> Truthy(main.response)
     /\ files["transcript.md"].present <=> (main.tracker # <<>>)

\* The try block ran to its end: the preview was printed.
Previewed == \E i \in 1..Len(events) : events[i].op = "preview"

\* C6: nothing is written under the results directory before generate_with_sdk
\* returned normally (so nothing at all when the engine call raised), and once the
\* session completed output.txt is the first file written, unconditionally, and
\* holds exactly the final text.
C6_ResultsOnlyAfterSession ==
  /\ written # {} => /\ main.bound
                     /\ client = "closed"
                     /\ "output.txt" \in written
                     /\ files["output.txt"] = File(generated_content)
  /\ Previewed => "output.txt" \in written

\* C6 witness: a run that got to its end with output.txt and out/ written, and
\* (scenario A) the result of the last message as its text.
C6_Witness ==
  /\ Succeeded
  /\ {"output.txt", "out"} \subseteq written
  /\ Len(observed) = 2
  /\ generated_content = <<"<summary>", "a", "</summary>", "<response>", "b", "</response>">>
  /\ files["output.txt"].text = generated_content
  /\ ~files["feedback.md"].present

Removals == {"rmtree", "rmtree_ignore_errors", "tmp_cleanup"}

\* C7: once the working directory was switched to the workspace, every attempt to
\* remove the workspace runs with the working directory restored, the restoring
\* chdir coming after the switch and before the attempt, and the process ends in
\* the original directory.
C7_CwdRestoredBeforeRemoval ==
  /\ \A i \in 1..Len(events) :
        events[i].op \in Removals =>
           /\ events[i].cwd = "orig"
           /\ \E j \in 1..(i - 1) :
                 /\ events[j].op = "chdir" /\ events[j].arg = "orig"
                 /\ \E k \in 1..(j - 1) : events[k].op = "chdir" /\ events[k].arg = "ws"
                 /\ \A k \in (j + 1)..i : ~(events[k].op = "chdir" /\ events[k].arg = "ws")
  /\ Finished => cwd = "orig"

\* C7 witness: the session returned, persisting the results failed, and the
\* handler's three removal attempts ran before the process ended.
C7_Witness ==
  /\ Finished
  /\ main.bound
  /\ cd.caller = "m_exit1"
  /\ cd.tries = 3
  /\ cwd = "orig"

ConfigError == ~promptExists \/ (~no_mcp /\ ~launcherExists)

\* C8: with the prompt file missing, or tool servers requested and the launcher
\* missing, the process exits non-zero having created no workspace, never changed
\* the working directory, opened no session and written no result file.
C8_ConfigErrorsBeforeWorkspace ==
  ConfigError =>
     /\ pc \in {"start", "done"}
     /\ Finished => exitCode = "1"
     /\ ~wsExists
     /\ cwd = "orig" /\ original_cwd = "unset"
     /\ client = "none"
     /\ written = {}
     /\ \A i \in 1..Len(events) : events[i].op = "exit"

\* C8 witness (scenario C): tool servers requested, the launcher missing, and the
\* process has exited.
C8_Witness ==
  /\ Finished
  /\ promptExists /\ ~no_mcp /\ ~launcherExists
  /\ exitCode = "1"
  /\ events = <<[op |-> "exit", arg |-> "1", cwd |-> "orig", client |-> "none"]>>

\* ------------------------------------------------------------------ claims on cleanup_directory
\* C9: at most the configured number of attempts is made; the warning and the
\* forced removal come only after that many attempts all failed; a successful
\* attempt ends the call at once, reporting success with no warning and no forced
\* removal and with the path gone.
C9_RetriesBeforeForcing ==
  /\ cd.tries <= cd.retries
  /\ (cd.forced > 0 \/ cd.warned > 0) =>
        /\ cd.tries = cd.retries
        /\ cd.ret # "True"
        /\ cd.forced <= 1 /\ cd.warned = 1
  /\ cd.ret = "True" =>
        /\ cd.pc \in {"ret", "idle"}
        /\ cd.tries = cd.attempt + 1
        /\ cd.forced = 0 /\ cd.warned = 0
        /\ ~wsExists

\* C9 witness (scenario D): two attempts failed, the third succeeded.
C9_Witness ==
  /\ cd.pc = "idle"
  /\ cd.retries = 3
  /\ cd.tries = 3
  /\ Len(cd.sleeps) = 2
  /\ cd.ret = "True"
  /\ cd.warned = 0 /\ cd.forced = 0
  /\ ~wsExists

\* C10: a call of cleanup_directory, with at least one attempt configured, on a
\* path that does not exist (any more) reports success, without a warning, a wait
\* or the forced removal, and leaves the path absent.
C10_ReleaseIdempotent ==
  (cd.pc \in {"ret", "idle"} /\ cd.ret # "none" /\ cd.retries > 0 /\ ~cd.existed) =>
     /\ cd.ret = "True"
     /\ cd.warned = 0 /\ cd.forced = 0 /\ cd.sleeps = <<>>
     /\ ~wsExists

\* ------------------------------------------------------------------ claims on the workspace
HasEvent(op, arg) == \E i \in 1..Len(events) : events[i].op = op /\ events[i].arg = arg

\* The place of the first event of the kind, 0 when there is none.
FirstEvent(op) ==
  IF \E i \in 1..Len(events) : events[i].op = op
  THEN CHOOSE i \in 1..Len(events) :
         events[i].op = op /\ \A j \in 1..(i - 1) : events[j].op # op
  ELSE 0

Created == FirstEvent("mkdtemp") # 0

\* The ordinary removal attempts of cleanup_directory that failed.
FailedAttempts ==
  Cardinality({ i \in 1..Len(events) : events[i].op = "rmtree" /\ events[i].arg = "fail" })

\* C11: a run that created a workspace does not stop before its end, and at its
\* end has attempted to remove the workspace after the session (after the session
\* was closed, when one was opened); the path is still there at the end only if
\* every ordinary attempt of the retry budget, and every other removal, failed.
C11_WorkspaceRemovedAfterSession ==
  /\ Created => (Finished \/ ENABLED Next)
  /\ (Finished /\ Created) =>
        /\ \E i \in 1..Len(events) :
              /\ events[i].op \in Removals
              /\ i > FirstEvent("mkdtemp")
              /\ i > FirstEvent("close")
              /\ events[i].client # "open"
        /\ wsExists =>
              /\ FailedAttempts = DefaultRetries
              /\ \A i \in 1..Len(events) :
                    events[i].op \in Removals => events[i].arg # "ok"

\* C11 witness: the stream raised after one message, the first removal attempt
\* failed, the second removed the workspace, and the process ended.
C11_Witness ==
  /\ Finished
  /\ Created
  /\ ~main.bound
  /\ Len(observed) = 1
  /\ cd.tries = 2 /\ cd.ret = "True"
  /\ ~wsExists

\* ------------------------------------------------------------------ claims on the exit code
\* What went wrong in a run that has ended.
ReadFailed == ~ConfigError /\ ~Created
SessionEntered == HasEvent("chdir", "ws")
EngineRaised == SessionEntered /\ ~main.bound
PersistRaised == main.bound /\ ~Previewed
TempDirRaised == HasEvent("tmp_cleanup", "fail")

C13_OutReplacedAtomically ==
  [][pc = "m_copy" =>
       /\ pc' = "m_cleanup" => out' = Dir(wsFiles)
       /\ out.present => (out' = out \/ out' = Dir(wsFiles))]_vars

\* ------------------------------------------------------------------ claims on the session
\* The positions of main_async and cleanup_directory after generate_with_sdk
\* has returned or raised.
AfterSession == pc \notin {"start", "read", "mk_tmp", "copy_env", "chdir",
                           "gen_start", "gen_open", "gen_query", "gen_recv"}
Opens == Cardinality({ i \in 1..Len(events) : events[i].op = "open" })
SessionInv ==
  /\ Opens <= 1
  /\ AfterSession => client # "open"
  /\ client = "open" <=> pc \in {"gen_query", "gen_recv"}
  /\ pc = "gen_recv" => message_count = Len(observed)
  /\ \A i \in 1..Len(events) :
        (events[i].op \in Removals \/ (events[i].op = "chdir" /\ events[i].arg = "orig")) =>
           /\ events[i].client # "open"
           /\ Opens = 1 => FirstEvent("close") \in (FirstEvent("open") + 1)..(i - 1)

\* C14: at most one engine session is opened per run and it is closed on every
\* exit path before generate_with_sdk returns or raises, hence before the working
\* directory is restored and before any removal of the workspace; messages are
\* taken one at a time, in arrival order, only while the session is open.
C14_SessionScoped ==
  /\ []SessionInv
  /\ [][observed' # observed =>
          /\ client = "open" /\ client' = "open"
          /\ Len(observed') = Len(observed) + 1
          /\ IsPrefixOf(observed, observed')]_vars

\* C14 witness: the stream raised after one message and the handler has restored
\* the working directory and started removing the workspace, the session closed.
C14_Witness ==
  /\ Len(observed) = 1
  /\ ~main.bound
  /\ HasEvent("rmtree", "ok")
  /\ client = "closed"
  /\ cwd = "orig"

\* ------------------------------------------------------------------ claims on the workspace's states
\* The index of the first attempt to remove the workspace, 0 when there is none.
FirstRemoval ==
  IF \E i \in 1..Len(events) : events[i].op \in Removals
  THEN CHOOSE i \in 1..Len(events) :
         /\ events[i].op \in Removals
         /\ \A j \in 1..(i - 1) : events[j].op \notin Removals
  ELSE 0
SnapshotBefore(i) ==
  \E j \in 1..(i - 1) : events[j].op = "copytree" /\ events[j].arg = "ok"

\* C15: a workspace goes through absent, created, populated, snapshotted and
\* released in that order: in every execution it is snapshotted into out/ before
\* it is released, never snapshotted after release, and released is terminal.
C15_SnapshotBeforeRelease ==
  /\ [](Created =>
          /\ FirstRemoval # 0 => (FirstRemoval > FirstEvent("mkdtemp") /\ SnapshotBefore(FirstRemoval))
          /\ \A i \in 1..Len(events) : events[i].op = "copytree" => FirstRemoval \in {0} \cup (i + 1)..Len(events))
  /\ [][(Created /\ ~wsExists) => ~wsExists']_vars

\* C15 as amended: the workspace is created, then populated by the agent only while
\* the session is open, then released; it is snapshotted into out/ before the first
\* removal attempt exactly in the executions that reach the preview, and an
\* execution where the engine call, the result write or the snapshot raises
\* releases it with no complete snapshot; no snapshot follows a removal attempt
\* and a removed workspace stays removed.
C15_SnapshotBeforeReleaseAmended ==
  /\ [](Created =>
          /\ FirstRemoval # 0 => FirstRemoval > FirstEvent("mkdtemp")
          /\ Previewed => SnapshotBefore(FirstRemoval)
          /\ (FirstRemoval # 0 /\ SnapshotBefore(FirstRemoval)) => main.bound
          /\ (Finished /\ ~Previewed) => ~HasEvent("copytree", "ok")
          /\ \A i \in 1..Len(events) : events[i].op = "copytree" => FirstRemoval \in {0} \cup (i + 1)..Len(events))
  /\ [][(Created /\ ~wsExists) => ~wsExists']_vars
  /\ [][(wsFiles' \ wsFiles) \ {".env"} # {} => (Created /\ client = "open" /\ FirstRemoval = 0)]_vars

\* C15 witness: the agent populated the workspace, the snapshot holds its file,
\* and the workspace was then removed.
C15_Witness ==
  /\ Finished
  /\ Previewed
  /\ "app.sql" \in out.files
  /\ SnapshotBefore(FirstRemoval)
  /\ ~wsExists

\* ------------------------------------------------------------------ claims on a failing removal
\* C16: a removal that fails on every attempt is never fatal: cleanup_directory
\* then warns, makes the forced removal and returns without raising, and a run
\* whose session completed and whose results were written still exits zero, the
\* exit of the temporary-directory scope included.
C16_RemovalFailureNotFatal ==
  /\ (cd.pc = "idle" /\ cd.ret = "False" /\ cd.retries > 0) => (cd.warned = 1 /\ cd.forced = 1)
  /\ (Finished /\ Previewed) => exitCode = "0"

\* ------------------------------------------------------------------ claims on a failed session
\* main_async is handling an error raised by generate_with_sdk.
HandlingEngineError ==
  /\ SessionEntered
  /\ ~main.bound
  /\ pc \in {"m_except", "m_exc_cleanup", "cleanup", "m_exit1", "exit_err", "done"}

\* C17: when the stream raises after k >= 1 messages were recorded,
\* generate_with_sdk raises the error again with no partial return, and main_async
\* can still retrieve the transcript of those k messages.
C17_TranscriptAfterFailure ==
  (HandlingEngineError /\ Len(observed) >= 1) =>
     /\ main.generated_content = NoMain.generated_content
     /\ Len(main.tracker) = Len(observed)
     /\ get_transcript(main.tracker) = get_transcript(tracker)

\* ------------------------------------------------------------------ claims on the retry loop
\* C18: in one call of cleanup_directory the waits between removal attempts grow:
\* every wait is strictly longer than the wait before it.
C18_DelayIncreases ==
  \A i \in 1..(Len(cd.sleeps) - 1) : cd.sleeps[i + 1] > cd.sleeps[i]

\* ------------------------------------------------------------------ claims on the open session
\* Operations on the results directory and removals of the workspace.
OutsideSession == {"write", "rmtree_out", "copytree"} \cup Removals

\* C19: whenever the engine session is open the working directory is the
\* workspace and the workspace exists; the original working directory was saved
\* before the switch, .env was staged into the workspace before the switch, and no
\* snapshot, result write or removal of the workspace happens while it is open.
C19_OpenSessionInWorkspace ==
  /\ client = "open" =>
        /\ cwd = "ws" /\ wsExists
        /\ original_cwd = "orig"
        /\ envExists => ".env" \in wsFiles
  /\ cwd = "ws" => original_cwd = "orig"
  /\ (envExists /\ SessionEntered) =>
        /\ HasEvent("copy_env", "")
        /\ FirstEvent("copy_env") < FirstEvent("chdir")
        /\ events[FirstEvent("copy_env")].cwd = "orig"
  /\ \A i \in 1..Len(events) : events[i].op \in OutsideSession => events[i].client # "open"

\* C19 witness: the session is open in the workspace, .env staged, one message
\* taken and a file written by the agent.
C19_Witness ==
  /\ client = "open"
  /\ cwd = "ws"
  /\ wsFiles = {".env", "app.sql"}
  /\ Len(observed) = 1

\* ------------------------------------------------------------------ claims on the loop's cost
InCall == cd.caller # ""
CdStep == CdAttempt \/ CdSleep \/ CdForced \/ CdReturn
LastEventIs(op, arg) ==
  /\ Len(events) > 0
  /\ events[Len(events)].op = op
  /\ events[Len(events)].arg = arg

\* C20: for every retries >= 0 and every pattern of failures, cleanup_directory
\* ends after at most retries ordinary attempts, at most one forced removal and
\* at most retries - 1 sleeps, never sleeping after its last ordinary attempt; it
\* returns True only if an ordinary attempt succeeded, and when it returns False it
\* has made at least one removal attempt.
C20_BoundedWork ==
  InCall =>
     /\ cd.tries <= cd.retries
     /\ cd.forced <= 1
     /\ Len(cd.sleeps) <= cd.retries - 1
     /\ cd.pc = "sleep" => cd.tries < cd.retries
     /\ cd.ret = "True" => (cd.tries >= 1 /\ LastEventIs("rmtree", "ok"))
     /\ cd.ret = "False" => cd.tries + cd.forced >= 1
     /\ cd.pc # "idle" => ENABLED CdStep

\* C20 as amended: the bounds hold for every retries >= 1; with retries = 0 the
\* call returns False at once, with no removal attempt, no sleep, no forced
\* removal and no warning.
C20_BoundedWorkAmended ==
  InCall =>
     /\ cd.tries <= cd.retries
     /\ cd.forced <= 1
     /\ cd.retries >= 1 => Len(cd.sleeps) <= cd.retries - 1
     /\ cd.pc = "sleep" => cd.tries < cd.retries
     /\ cd.ret = "True" => (cd.tries >= 1 /\ LastEventIs("rmtree", "ok"))
     /\ (cd.ret = "False" /\ cd.retries >= 1) => (cd.tries = cd.retries /\ cd.forced = 1)
     /\ cd.retries = 0 =>
          /\ cd.ret \in {"none", "False"}
          /\ cd.tries = 0 /\ cd.forced = 0 /\ cd.warned = 0 /\ cd.sleeps = <<>>
     /\ cd.pc # "idle" => ENABLED CdStep

\* C20 witness: a call with three attempts allowed has returned False after three
\* failed attempts, two sleeps and the forced removal.
C20_Witness ==
  /\ cd.pc = "idle"
  /\ cd.retries = 3
  /\ cd.ret = "False"
  /\ cd.tries = 3
  /\ Len(cd.sleeps) = 2
  /\ cd.forced = 1

====
